---- MODULE Spec2Model ----
(***************************************************************************)
(* Job lifecycle of the Digital Toolbox backend.                           *)
(*                                                                         *)
(*   src/main.py                 the submission handler upload_html, the   *)
(*                               sweeper cleanup_old_files and the store   *)
(*                               operation add_meta_entry                  *)
(*   src/app/process_script.py   the Job Runner main() and its store       *)
(*                               operations read_meta/write_meta/update_meta*)
(*                                                                         *)
(* The Job Store is the single document results_meta.json.  Every store    *)
(* operation is a read of the whole document followed by a rewrite of the  *)
(* whole document; the two halves are separate steps of the process that   *)
(* performs them.  Runners are separate OS processes and interleave freely;*)
(* upload_html is a coroutine of one event loop, so two submission         *)
(* handlers interleave only at its await.                                  *)
(*                                                                         *)
(* Specifications:                                                         *)
(*   Spec       submission handlers and Job Runners running concurrently;  *)
(*              each read and each rewrite of the document is one step     *)
(*   RunnerSpec the Job Runners of submitted jobs running concurrently,    *)
(*              with an os.remove that can fail                            *)
(*   FileSpec   the file results_meta.json during one write_text, with     *)
(*              readers reading at any moment                              *)
(*   StoreSpec  update_meta, status and history, one call at a time, on    *)
(*              the documents the code can write                           *)
(*   DiskSpec   get_result and cleanup_old_files, one call, on the disks   *)
(*              the service can have                                       *)
(*   NormSpec   signed_normalize_fixed, applied once and then again to its *)
(*              own result                                                 *)
(*   CoordSpec  compute_P_E on the scenes of one table                     *)
(*   CodecSpec  data_preprocessing and restore_category_from_scene on one  *)
(*              table, as main() calls them                                *)
(***************************************************************************)
EXTENDS Integers, Sequences, FiniteSets, TLC

\* Number of submissions (one job, one handler and one runner each).
MaxJobs == 2

Jobs == 1..MaxJobs

\* compute_P_E unpacks each scene's tuple into exactly eight ratings.
NRatings == 8

\* processed_at of an entry that has no timestamp (None).
Null == 0
\* id part of a name that carries no job-id prefix, and the free event loop.
NoId == 0

Terminal == {"done", "error"}

---------------------------------------------------------------------------
(* Names and paths *)

\* file.filename: the name the client gave the upload.
OrigName == [id |-> NoId, suffix |-> "survey.xlsx"]

\* saved_name = f"{file_id}_{file.filename}"
SavedName(j) == [id |-> j, suffix |-> "survey.xlsx"]

\* f1 = f"{file_id}_plot1.png", f2 = f"{file_id}_plot2.png"
PlotName(j, k) == [id |-> j, suffix |-> IF k = 1 THEN "plot1.png" ELSE "plot2.png"]

Path(d, n) == [dir |-> d, name |-> n]

\* file_path = UPLOAD_DIR / saved_name
UploadPath(j) == Path("uploads", SavedName(j))

\* out1 = RESULT_DIR / f1
ResultPath(n) == Path("results", n)

\* The uploaded tables, by what the runner's stages do with them: a file
\* pd.read_excel / data_preprocessing rejects, and readable tables with
\* seven or eight rating columns.
Inputs ==
  { [readable |-> FALSE, nratings |-> 0],
    [readable |-> TRUE,  nratings |-> NRatings - 1],
    [readable |-> TRUE,  nratings |-> NRatings] }

VARIABLES
  store,    \* results_meta.json: job id -> entry
  files,    \* the paths that exist on disk
  old,      \* the files whose mtime is before a sweep's cutoff
  clock,    \* datetime.utcnow(), in weeks
  loop,     \* the handler that holds the event loop, or NoId
  hpc,      \* position of each submission handler
  hsnap,    \* the handler's local `meta`
  rpc,      \* position of each Job Runner
  rsnap,    \* the runner's local `meta`
  rplots,   \* the runner's local `plots`
  rstamp,   \* the runner's datetime.utcnow().isoformat()
  twrites,  \* per runner, the terminal writes it has made to the store, in order:
            \* the status written, and whether the write created the entry
  text,     \* the characters of results_meta.json while a write_text is under way
  pending,  \* the characters a write_text has yet to put into the file
  call,     \* the request or function call being served on its own
  ret       \* what that call returned or raised

vars == <<store, files, old, clock, loop, hpc, hsnap,
          rpc, rsnap, rplots, rstamp, twrites, text, pending, call, ret>>

\* The submission handlers and the Job Runners.
jobvars == <<loop, hpc, hsnap, rpc, rsnap, rplots, rstamp, twrites>>

\* The raw file behind the store.
filevars == <<text, pending>>

\* The call served on its own.
callvars == <<call, ret>>

EmptyMeta == [j \in {} |-> 0]

\* No submission has arrived and no runner exists.
NoJobs ==
  /\ loop = NoId
  /\ hpc = [h \in Jobs |-> "idle"]
  /\ hsnap = [h \in Jobs |-> EmptyMeta]
  /\ rpc = [r \in Jobs |-> "notstarted"]
  /\ rsnap = [r \in Jobs |-> EmptyMeta]
  /\ rplots = [r \in Jobs |-> <<>>]
  /\ rstamp = [r \in Jobs |-> Null]
  /\ twrites = [r \in Jobs |-> <<>>]

\* The document is followed through `store` alone: every read_text and
\* every write_text is one step.
WholeDocument == text = <<>> /\ pending = <<>>

NoCall == [op |-> "none"]

NoRet == [kind |-> "none"]

\* No call is served on its own.
NoCalls == call = NoCall /\ ret = NoRet

Init ==
  /\ store = EmptyMeta
  /\ files = {}
  /\ old = {}
  /\ clock = 1
  /\ NoJobs
  /\ WholeDocument
  /\ NoCalls

---------------------------------------------------------------------------
(* Job Store operations *)

\* add_meta_entry: meta[file_id] = {...}
NewEntry(j) ==
  [file_id |-> j, filename |-> OrigName, status |-> "processing",
   processed_at |-> Null, plots |-> <<>>, preview_html |-> FALSE]

AddEntry(meta, j) ==
  [k \in DOMAIN meta \cup {j} |-> IF k = j THEN NewEntry(j) ELSE meta[k]]

\* A variant of SetError that also stamps the entry.
SetErrorStamped(meta, j) ==
  [k \in DOMAIN meta |->
     IF k = j THEN [meta[k] EXCEPT !.status = "error", !.processed_at = clock] ELSE meta[k]]

\* update_meta(file_id, status="error"): meta[file_id].update(kwargs)
SetError(meta, j) ==
  [k \in DOMAIN meta |-> IF k = j THEN [meta[k] EXCEPT !.status = "error"] ELSE meta[k]]

\* main(): the fields of the success write
DoneEntry(j, stamp, plots) ==
  [file_id |-> j, filename |-> SavedName(j), status |-> "done",
   processed_at |-> stamp, plots |-> plots, preview_html |-> TRUE]

\* A variant of SetDone that updates the document as it is at the moment of
\* the write instead of the snapshot read earlier.
SetDoneInPlace(meta, j, stamp, plots) ==
  [k \in DOMAIN store \cup {j} |-> IF k = j THEN DoneEntry(j, stamp, plots) ELSE store[k]]

\* A variant of SetDone that, like update_meta, leaves an absent id absent.
SetDoneIfPresent(meta, j, stamp, plots) ==
  [k \in DOMAIN meta |-> IF k = j THEN DoneEntry(j, stamp, plots) ELSE meta[k]]

\* main(): if file_id not in meta: meta[file_id] = {}; meta[file_id].update({...})
SetDone(meta, j, stamp, plots) ==
  [k \in DOMAIN meta \cup {j} |-> IF k = j THEN DoneEntry(j, stamp, plots) ELSE meta[k]]

\* What twrites records of a write made from the document `meta`.
TerminalWrite(status, meta, j) == [status |-> status, created |-> j \notin DOMAIN meta]

Range(s) == {s[i] : i \in 1..Len(s)}

\* cleanup_old_files: any((ROOT / p).exists() for p in v.get("plots", []))
AnyPlotExists(e, fs) == \E p \in Range(e.plots) : Path("root", p) \in fs

\* cleanup_old_files: keep = {k: v for entries with any_plot_exists}
Keep(meta, fs) ==
  [k \in {j \in DOMAIN meta : AnyPlotExists(meta[j], fs)} |-> meta[k]]

---------------------------------------------------------------------------
(* Time *)

\* No submission is being handled and no runner is running.
Quiescent ==
  /\ \A h \in Jobs : hpc[h] \in {"idle", "returned"}
  /\ \A r \in Jobs : rpc[r] \in {"notstarted", "exited", "crashed"}

\* A week goes by while the service is idle: every file now on disk becomes
\* older than the sweeper's cutoff (mtime < utcnow() - 7 days).  A job runs
\* for seconds, so no week passes in the middle of one.
TimePasses ==
  /\ Quiescent
  /\ old # files
  /\ old' = files
  /\ clock' = clock + 1
  /\ UNCHANGED <<store, files, loop, hpc, hsnap,
                 rpc, rsnap, rplots, rstamp, twrites>>
  /\ UNCHANGED <<filevars, callvars>>

---------------------------------------------------------------------------
(* Submission handler: upload_html *)

\* A variant of SweepTargets without the age test.
SweepTargetsAnyAge(fs, o) == {f \in fs : f.dir \in {"uploads", "results"}}

\* cleanup_old_files: the files the two iterdir() loops find with mtime < cutoff
SweepTargets(fs, o) == {f \in fs : f.dir \in {"uploads", "results"} /\ f \in o}

\* cleanup_old_files, first half: unlink every old file of uploads/ and
\* results/; an unlink that raises is swallowed and the file stays.
SweepFiles(h) ==
  /\ hpc[h] = "idle"
  /\ loop = NoId
  /\ \E failed \in SUBSET SweepTargets(files, old) :
       /\ files' = files \ (SweepTargets(files, old) \ failed)
       /\ old' = old \cap files'
  /\ loop' = h
  /\ hpc' = [hpc EXCEPT ![h] = "prune_read"]
  /\ UNCHANGED <<store, clock, hsnap, rpc, rsnap, rplots, rstamp, twrites>>
  /\ UNCHANGED <<filevars, callvars>>

\* cleanup_old_files: meta = json.loads(METAFILE.read_text())
SweepRead(h) ==
  /\ hpc[h] = "prune_read"
  /\ hsnap' = [hsnap EXCEPT ![h] = store]
  /\ hpc' = [hpc EXCEPT ![h] = "prune_write"]
  /\ UNCHANGED <<store, files, old, clock, loop,
                 rpc, rsnap, rplots, rstamp, twrites>>
  /\ UNCHANGED <<filevars, callvars>>

\* A variant of SweepPrune in which the old files are unlinked after the
\* document is rewritten.
SweepPruneThenUnlink(h) ==
  /\ hpc[h] = "prune_write"
  /\ store' = Keep(hsnap[h], files)
  /\ files' = files \ SweepTargets(files, old)
  /\ old' = old \cap files'
  /\ hsnap' = [hsnap EXCEPT ![h] = EmptyMeta]
  /\ loop' = NoId
  /\ hpc' = [hpc EXCEPT ![h] = "await"]
  /\ UNCHANGED <<clock, rpc, rsnap, rplots, rstamp, twrites>>
  /\ UNCHANGED <<filevars, callvars>>

\* cleanup_old_files: METAFILE.write_text(json.dumps(keep)); the handler
\* then reaches `await file.read()` and yields the event loop.
SweepPrune(h) ==
  /\ hpc[h] = "prune_write"
  /\ store' = Keep(hsnap[h], files)
  /\ hsnap' = [hsnap EXCEPT ![h] = EmptyMeta]
  /\ loop' = NoId
  /\ hpc' = [hpc EXCEPT ![h] = "await"]
  /\ UNCHANGED <<files, old, clock, rpc, rsnap, rplots, rstamp, twrites>>
  /\ UNCHANGED <<filevars, callvars>>

\* upload_html: with open(file_path, "wb") as f: f.write(await file.read()).
\* The handler resumes after the await and writes the upload.
SaveUpload(h) ==
  /\ hpc[h] = "await"
  /\ loop = NoId
  /\ files' = files \cup {UploadPath(h)}
  /\ loop' = h
  /\ hpc' = [hpc EXCEPT ![h] = "add_read"]
  /\ UNCHANGED <<store, old, clock, hsnap, rpc, rsnap, rplots, rstamp, twrites>>
  /\ UNCHANGED <<filevars, callvars>>

\* add_meta_entry: meta = json.loads(METAFILE.read_text())
AddRead(h) ==
  /\ hpc[h] = "add_read"
  /\ hsnap' = [hsnap EXCEPT ![h] = store]
  /\ hpc' = [hpc EXCEPT ![h] = "add_write"]
  /\ UNCHANGED <<store, files, old, clock, loop,
                 rpc, rsnap, rplots, rstamp, twrites>>
  /\ UNCHANGED <<filevars, callvars>>

\* add_meta_entry: meta[file_id] = {...}; METAFILE.write_text(json.dumps(meta))
AddWrite(h) ==
  /\ hpc[h] = "add_write"
  /\ store' = AddEntry(hsnap[h], h)
  /\ hsnap' = [hsnap EXCEPT ![h] = EmptyMeta]
  /\ hpc' = [hpc EXCEPT ![h] = "spawn"]
  /\ UNCHANGED <<files, old, clock, loop, rpc, rsnap, rplots, rstamp, twrites>>
  /\ UNCHANGED <<filevars, callvars>>

\* A variant of Launch that starts the runner as soon as the upload is
\* saved, before add_meta_entry.
LaunchBeforeEntry(h) ==
  /\ hpc[h] = "add_read"
  /\ rpc' = [rpc EXCEPT ![h] = "load"]
  /\ loop' = NoId
  /\ hpc' = [hpc EXCEPT ![h] = "returned"]
  /\ UNCHANGED <<store, files, old, clock, hsnap, rsnap, rplots, rstamp, twrites>>
  /\ UNCHANGED <<filevars, callvars>>

\* upload_html: subprocess.Popen([... process_script.py, file_path, file_id]);
\* return JSONResponse({"status": "processing", "file_id": file_id})
Launch(h) ==
  /\ hpc[h] = "spawn"
  /\ rpc' = [rpc EXCEPT ![h] = "load"]
  /\ loop' = NoId
  /\ hpc' = [hpc EXCEPT ![h] = "returned"]
  /\ UNCHANGED <<store, files, old, clock, hsnap, rsnap, rplots, rstamp, twrites>>
  /\ UNCHANGED <<filevars, callvars>>

---------------------------------------------------------------------------
(* Job Runner: process_script.main *)

\* pd.read_excel(file_path) and the reshaping raise when the file is gone
\* or is not a table the reshaping accepts.
LoadRaises(t, r, fs) == UploadPath(r) \notin fs \/ ~t.readable

\* compute_P_E: e, v, p, ca, u, m, a, ch = values raises ValueError unless
\* the scene tuple has exactly eight ratings.
ComputeRaises(t) == t.nratings # NRatings

\* A variant of AfterCompute in which the try block does not enclose the
\* read: a file that cannot be read kills the runner.
AfterComputeUncaught(t, r, fs) ==
  IF LoadRaises(t, r, fs) \/ ComputeRaises(t) THEN "crashed" ELSE "plot1"

\* Where main() stands after its computing part, on the table t: in the
\* except branch of the try block around read_excel .. locations; dead of
\* an exception of compute_P_E / signed_normalize_fixed, which no try block
\* encloses; or at the first plot.
AfterCompute(t, r, fs) ==
  IF LoadRaises(t, r, fs) THEN "err_read"
  ELSE IF ComputeRaises(t) THEN "crashed"
  ELSE "plot1"

\* main(): read the uploaded table, reshape it, compute and normalise the
\* coordinates.  Only the read touches anything shared.
Load(r) ==
  /\ rpc[r] = "load"
  /\ \E t \in Inputs : rpc' = [rpc EXCEPT ![r] = AfterCompute(t, r, files)]
  /\ UNCHANGED <<store, files, old, clock, loop, hpc, hsnap,
                 rsnap, rplots, rstamp, twrites>>
  /\ UNCHANGED <<filevars, callvars>>

\* except: update_meta(file_id, status="error") - meta = read_meta();
\* if file_id not in meta: return.  main() then returns.
ErrorRead(r) ==
  /\ rpc[r] = "err_read"
  /\ IF r \in DOMAIN store
       THEN /\ rsnap' = [rsnap EXCEPT ![r] = store]
            /\ rpc' = [rpc EXCEPT ![r] = "err_write"]
       ELSE /\ rsnap' = rsnap
            /\ rpc' = [rpc EXCEPT ![r] = "exited"]
  /\ UNCHANGED <<store, files, old, clock, loop, hpc, hsnap,
                 rplots, rstamp, twrites>>
  /\ UNCHANGED <<filevars, callvars>>

\* update_meta: meta[file_id].update(kwargs); write_meta(meta); then
\* main() prints and returns.
ErrorWrite(r) ==
  /\ rpc[r] = "err_write"
  /\ store' = SetError(rsnap[r], r)
  /\ twrites' = [twrites EXCEPT ![r] = Append(@, TerminalWrite("error", rsnap[r], r))]
  /\ rsnap' = [rsnap EXCEPT ![r] = EmptyMeta]
  /\ rpc' = [rpc EXCEPT ![r] = "exited"]
  /\ UNCHANGED <<files, old, clock, loop, hpc, hsnap, rplots, rstamp>>
  /\ UNCHANGED <<filevars, callvars>>

\* A variant of Plot in which a plot that fails ends the plotting: the
\* runner goes straight to its success write.
PlotStopsOnFailure(r, k, here, next) ==
  /\ rpc[r] = here
  /\ \E ok \in BOOLEAN :
       IF ok
         THEN /\ files' = files \cup {ResultPath(PlotName(r, k))}
              /\ old' = old \ {ResultPath(PlotName(r, k))}
              /\ rplots' = [rplots EXCEPT ![r] = Append(@, PlotName(r, k))]
              /\ rpc' = [rpc EXCEPT ![r] = next]
         ELSE /\ UNCHANGED <<files, old, rplots>>
              /\ rpc' = [rpc EXCEPT ![r] = "done_read"]
  /\ UNCHANGED <<store, clock, loop, hpc, hsnap, rsnap, rstamp, twrites>>
  /\ UNCHANGED <<filevars, callvars>>

\* A variant of Plot in which the artifact is named without the job id.
PlotUnprefixed(r, k, here, next) ==
  /\ rpc[r] = here
  /\ \E ok \in BOOLEAN :
       IF ok
         THEN /\ files' = files \cup {ResultPath(PlotName(NoId, k))}
              /\ old' = old \ {ResultPath(PlotName(NoId, k))}
              /\ rplots' = [rplots EXCEPT ![r] = Append(@, PlotName(NoId, k))]
         ELSE UNCHANGED <<files, old, rplots>>
  /\ rpc' = [rpc EXCEPT ![r] = next]
  /\ UNCHANGED <<store, clock, loop, hpc, hsnap, rsnap, rstamp, twrites>>
  /\ UNCHANGED <<filevars, callvars>>

\* main(): one "Generate PLOT k" try block: render, savefig into results/,
\* plots.append(fk); a failure is printed and the runner goes on.
Plot(r, k, here, next) ==
  /\ rpc[r] = here
  /\ \E ok \in BOOLEAN :
       IF ok
         THEN /\ files' = files \cup {ResultPath(PlotName(r, k))}
              /\ old' = old \ {ResultPath(PlotName(r, k))}
              /\ rplots' = [rplots EXCEPT ![r] = Append(@, PlotName(r, k))]
         ELSE UNCHANGED <<files, old, rplots>>
  /\ rpc' = [rpc EXCEPT ![r] = next]
  /\ UNCHANGED <<store, clock, loop, hpc, hsnap, rsnap, rstamp, twrites>>
  /\ UNCHANGED <<filevars, callvars>>

Plot1(r) == Plot(r, 1, "plot1", "plot2")

Plot2(r) == Plot(r, 2, "plot2", "done_read")

\* main(): meta = read_meta(); the update dict is then built, reading the clock
DoneRead(r) ==
  /\ rpc[r] = "done_read"
  /\ rsnap' = [rsnap EXCEPT ![r] = store]
  /\ rstamp' = [rstamp EXCEPT ![r] = clock]
  /\ rpc' = [rpc EXCEPT ![r] = "done_write"]
  /\ UNCHANGED <<store, files, old, clock, loop, hpc, hsnap, rplots, twrites>>
  /\ UNCHANGED <<filevars, callvars>>

\* main(): meta[file_id].update({... "status": "done" ...}); write_meta(meta)
DoneWrite(r) ==
  /\ rpc[r] = "done_write"
  /\ store' = SetDone(rsnap[r], r, rstamp[r], rplots[r])
  /\ twrites' = [twrites EXCEPT ![r] = Append(@, TerminalWrite("done", rsnap[r], r))]
  /\ rsnap' = [rsnap EXCEPT ![r] = EmptyMeta]
  /\ rstamp' = [rstamp EXCEPT ![r] = Null]
  /\ rpc' = [rpc EXCEPT ![r] = "remove"]
  /\ UNCHANGED <<files, old, clock, loop, hpc, hsnap, rplots>>
  /\ UNCHANGED <<filevars, callvars>>

\* main(): try: os.remove(file_path) except Exception: pass - the file is
\* removed; when it is already gone os.remove raises and nothing happens.
RemoveUpload(r) ==
  /\ rpc[r] = "remove"
  /\ files' = files \ {UploadPath(r)}
  /\ old' = old \cap files'
  /\ rpc' = [rpc EXCEPT ![r] = "exited"]
  /\ UNCHANGED <<store, clock, loop, hpc, hsnap, rsnap, rplots, rstamp, twrites>>
  /\ UNCHANGED <<filevars, callvars>>

---------------------------------------------------------------------------

Handler(h) ==
  \/ SweepFiles(h)
  \/ SweepRead(h)
  \/ SweepPrune(h)
  \/ SaveUpload(h)
  \/ AddRead(h)
  \/ AddWrite(h)
  \/ Launch(h)

Runner(r) ==
  \/ Load(r)
  \/ ErrorRead(r)
  \/ ErrorWrite(r)
  \/ Plot1(r)
  \/ Plot2(r)
  \/ DoneRead(r)
  \/ DoneWrite(r)
  \/ RemoveUpload(r)

Next ==
  \/ TimePasses
  \/ \E h \in Jobs : Handler(h)
  \/ \E r \in Jobs : Runner(r)

Spec == Init /\ [][Next]_vars

---------------------------------------------------------------------------
(* The Job Runners on their own: every job has been submitted, every       *)
(* handler has returned and every runner has just been started.  The store *)
(* holds the processing entries the submissions' sweeps have left, the     *)
(* last one created at least.  Here os.remove can fail.                    *)

RunnerInit ==
  /\ \E D \in SUBSET Jobs :
       /\ D # {}
       /\ store = [j \in D |-> NewEntry(j)]
  /\ files = { UploadPath(j) : j \in Jobs }
  /\ old = {}
  /\ clock = 1
  /\ loop = NoId
  /\ hpc = [h \in Jobs |-> "returned"]
  /\ hsnap = [h \in Jobs |-> EmptyMeta]
  /\ rpc = [r \in Jobs |-> "load"]
  /\ rsnap = [r \in Jobs |-> EmptyMeta]
  /\ rplots = [r \in Jobs |-> <<>>]
  /\ rstamp = [r \in Jobs |-> Null]
  /\ twrites = [r \in Jobs |-> <<>>]
  /\ WholeDocument
  /\ NoCalls

\* A variant of RemoveUploadFails in which the exception of os.remove is
\* not caught and kills the runner.
RemoveFailureEscalates(r) ==
  /\ rpc[r] = "remove"
  /\ UploadPath(r) \in files
  /\ rpc' = [rpc EXCEPT ![r] = "crashed"]
  /\ UNCHANGED <<store, files, old, clock, loop, hpc, hsnap, rsnap, rplots, rstamp, twrites>>
  /\ UNCHANGED <<filevars, callvars>>

\* main(): try: os.remove(file_path) except Exception: pass - os.remove
\* raises (the file is held open elsewhere, the directory does not allow
\* it), the file stays and main() returns.
RemoveUploadFails(r) ==
  /\ rpc[r] = "remove"
  /\ UploadPath(r) \in files
  /\ rpc' = [rpc EXCEPT ![r] = "exited"]
  /\ UNCHANGED <<store, files, old, clock, loop, hpc, hsnap, rsnap, rplots, rstamp, twrites>>
  /\ UNCHANGED <<filevars, callvars>>

RunnerNext == \E r \in Jobs : Runner(r) \/ RemoveUploadFails(r)

RunnerSpec == RunnerInit /\ [][RunnerNext]_vars

---------------------------------------------------------------------------
(* The file behind the store: results_meta.json under write_text and       *)
(* read_text.  Path.write_text opens the file with mode "w", which         *)
(* truncates it, and the characters reach the file when the buffers are    *)
(* flushed, in one piece or in several; Path.read_text returns what the    *)
(* file holds at that moment.  One write is followed at a time here: what  *)
(* two writers do to each other is the subject of Spec.                    *)

RECURSIVE Ascending(_)
\* the ids of S in ascending order
Ascending(S) ==
  IF S = {} THEN <<>>
  ELSE LET m == CHOOSE x \in S : \A y \in S : x <= y
       IN <<m>> \o Ascending(S \ {m})

\* json.dumps(meta): the opening brace, one member per entry, the closing
\* brace.
Dumps(meta) ==
  LET ids == Ascending(DOMAIN meta)
  IN <<[kind |-> "open"]>>
       \o [i \in 1..Len(ids) |-> [kind |-> "member", key |-> ids[i], value |-> meta[ids[i]]]]
       \o <<[kind |-> "close"]>>

\* what json.loads accepts: a complete object
WellFormed(t) ==
  /\ Len(t) >= 2
  /\ t[1].kind = "open"
  /\ t[Len(t)].kind = "close"
  /\ \A i \in 2..(Len(t) - 1) : t[i].kind = "member"

\* json.loads(METAFILE.read_text()): the mapping, or JSONDecodeError on an
\* empty or cut-off text.
Loads(t) ==
  IF WellFormed(t)
    THEN [kind |-> "meta",
          meta |-> [j \in {t[i].key : i \in 2..(Len(t) - 1)} |->
                      (CHOOSE m \in {t[i] : i \in 2..(Len(t) - 1)} : m.key = j).value]]
    ELSE [kind |-> "raised", error |-> "JSONDecodeError"]

\* The processes that read the document: the status and history handlers
\* (run in worker threads), the read half of add_meta_entry and
\* cleanup_old_files, and read_meta of a Job Runner.
Readers == {"status", "history", "add_meta_entry", "cleanup_old_files", "read_meta"}

\* `if not METAFILE.exists(): METAFILE.write_text(json.dumps({}))`
FileInit ==
  /\ store = EmptyMeta
  /\ text = Dumps(EmptyMeta)
  /\ pending = <<>>
  /\ files = {}
  /\ old = {}
  /\ clock = 1
  /\ NoJobs
  /\ NoCalls

\* METAFILE.write_text(json.dumps(doc)): open(mode="w") empties the file;
\* the characters wait in the writer's buffer.
BeginWrite(doc) ==
  /\ pending = <<>>
  /\ text' = <<>>
  /\ pending' = Dumps(doc)
  /\ UNCHANGED <<store, files, old, clock, jobvars, callvars>>

\* the write of add_meta_entry, for a new id
CreateWrite(j) == j \notin DOMAIN store /\ BeginWrite(AddEntry(store, j))

\* the write of update_meta(file_id, status="error")
UpdateWrite(j) ==
  /\ j \in DOMAIN store
  /\ store[j].status = "processing"
  /\ BeginWrite(SetError(store, j))

\* the write_meta of a runner's success path
DoneFileWrite(j) ==
  /\ j \in DOMAIN store => store[j].status = "processing"
  /\ BeginWrite(SetDone(store, j, clock, <<PlotName(j, 1), PlotName(j, 2)>>))

\* the write of cleanup_old_files
PruneWrite == store # EmptyMeta /\ BeginWrite(Keep(store, files))

\* The buffer is flushed: the next characters, some or all of them, reach
\* the file.  With the last of them the write is complete.
Flush ==
  /\ pending # <<>>
  /\ \E k \in 1..Len(pending) :
       /\ text' = text \o SubSeq(pending, 1, k)
       /\ pending' = SubSeq(pending, k + 1, Len(pending))
       /\ store' = IF k = Len(pending) THEN Loads(text').meta ELSE store
  /\ UNCHANGED <<files, old, clock, jobvars, callvars>>

\* meta = json.loads(METAFILE.read_text()) in the reader `who`
ReadDocument(who) ==
  /\ call' = [op |-> who]
  /\ ret' = Loads(text)
  /\ UNCHANGED <<store, files, old, clock, jobvars, filevars>>

FileNext ==
  \/ \E j \in Jobs : CreateWrite(j)
  \/ \E j \in Jobs : UpdateWrite(j)
  \/ \E j \in Jobs : DoneFileWrite(j)
  \/ PruneWrite
  \/ Flush
  \/ \E who \in Readers : ReadDocument(who)

FileSpec == FileInit /\ [][FileNext]_vars

---------------------------------------------------------------------------
(* The store operations and the store's endpoints, served one call at a    *)
(* time on a document the service can hold.                                *)

\* Largest processed_at of the documents considered.
MaxStamp == 2

Stamps == 1..MaxStamp

\* the `plots` lists a runner of job j can end with
PlotLists(j) ==
  { <<>>, <<PlotName(j, 1)>>, <<PlotName(j, 2)>>, <<PlotName(j, 1), PlotName(j, 2)>> }

\* the entries the code writes for job j: by add_meta_entry, by the
\* runner's update_meta(status="error"), by the runner's success write
EntriesOf(j) ==
  { NewEntry(j), SetError(AddEntry(EmptyMeta, j), j)[j] }
    \cup { DoneEntry(j, t, ps) : t \in Stamps, ps \in PlotLists(j) }

\* the documents made of such entries
Docs ==
  UNION { { f \in [D -> UNION { EntriesOf(j) : j \in D }] : \A j \in D : f[j] \in EntriesOf(j) }
          : D \in SUBSET Jobs }

StoreInit ==
  /\ store \in Docs
  /\ files = {}
  /\ old = {}
  /\ clock = 1
  /\ NoJobs
  /\ WholeDocument
  /\ NoCalls

\* A variant of UpdateMetaCall that, like the runner's success write,
\* makes the entry when the id has none.
UpdateMetaUpsert(meta, j) ==
  [k \in DOMAIN meta \cup {j} |->
     IF k = j
       THEN [(IF j \in DOMAIN meta THEN meta[j] ELSE NewEntry(j)) EXCEPT !.status = "error"]
       ELSE meta[k]]

\* update_meta(file_id, status="error"), the document it leaves:
\* `if file_id not in meta: return`, else the entry updated and written
UpdateMetaCall(meta, j) ==
  IF j \notin DOMAIN meta THEN meta ELSE SetError(meta, j)

\* update_meta returns None
UpdateMeta(j) ==
  /\ call' = [op |-> "update_meta", file_id |-> j]
  /\ store' = UpdateMetaCall(store, j)
  /\ ret' = [kind |-> "returned"]
  /\ UNCHANGED <<files, old, clock, jobvars, filevars>>

\* status(file_id): 404 {"status": "not_found"} or the entry
StatusResponse(meta, j) ==
  IF j \notin DOMAIN meta
    THEN [kind |-> "response", code |-> 404, body |-> [status |-> "not_found"]]
    ELSE [kind |-> "response", code |-> 200, body |-> meta[j]]

Status(j) ==
  /\ call' = [op |-> "status", file_id |-> j]
  /\ ret' = StatusResponse(store, j)
  /\ UNCHANGED <<store, files, old, clock, jobvars, filevars>>

\* the key of "" (`x.get("processed_at") or ""`), below every timestamp
EmptyKey == 0

\* A variant of SortKey that puts an entry without timestamp above every
\* timestamp.
SortKeyUnsetHigh(e) == IF e.processed_at = Null THEN MaxStamp + 1 ELSE e.processed_at

\* key=lambda x: x.get("processed_at") or ""
SortKey(e) == IF e.processed_at = Null THEN EmptyKey ELSE e.processed_at

\* one step of the stable descending sort: e goes behind the items whose
\* key is not smaller
InsertDescending(e, s) ==
  LET n == Cardinality({i \in 1..Len(s) : SortKey(s[i]) >= SortKey(e)})
  IN SubSeq(s, 1, n) \o <<e>> \o SubSeq(s, n + 1, Len(s))

RECURSIVE SortedDescending(_)
\* sorted(items, key=..., reverse=True): stable, equal keys keep their order
SortedDescending(items) ==
  IF items = <<>> THEN <<>>
  ELSE InsertDescending(items[Len(items)], SortedDescending(SubSeq(items, 1, Len(items) - 1)))

\* meta.values(): the entries in the order of the document, which is the
\* order in which the ids were inserted
Orders(meta) ==
  { o \in [1..Cardinality(DOMAIN meta) -> DOMAIN meta] :
      \A i, k \in DOMAIN o : i # k => o[i] # o[k] }

\* history(): JSONResponse(sorted(meta.values(), ...))
History ==
  /\ \E o \in Orders(store) :
       ret' = [kind |-> "response", code |-> 200,
               body |-> SortedDescending([i \in DOMAIN o |-> store[o[i]]])]
  /\ call' = [op |-> "history"]
  /\ UNCHANGED <<store, files, old, clock, jobvars, filevars>>

StoreNext ==
  \/ \E j \in Jobs : UpdateMeta(j)
  \/ \E j \in Jobs : Status(j)
  \/ History

StoreSpec == StoreInit /\ [][StoreNext]_vars

---------------------------------------------------------------------------
(* The artifact endpoint and the sweeper: one call served on a disk the    *)
(* service can have.                                                       *)

\* the files the service creates: each job's upload and its two plots
DiskPaths ==
  { UploadPath(j) : j \in Jobs } \cup { ResultPath(PlotName(j, k)) : j \in Jobs, k \in 1..2 }

\* the document in which every job is done with both plots
AllDone == [j \in Jobs |-> DoneEntry(j, 1, <<PlotName(j, 1), PlotName(j, 2)>>)]

DiskInit ==
  /\ files \in SUBSET DiskPaths
  /\ old \in SUBSET files
  /\ store \in {EmptyMeta, AllDone}
  /\ clock = 1
  /\ NoJobs
  /\ WholeDocument
  /\ NoCalls

\* the file names a client asks for
RequestNames == { PlotName(j, k) : j \in Jobs, k \in 1..2 } \cup { SavedName(j) : j \in Jobs }

\* get_result(file_id, filename): path = RESULT_DIR / filename; 404 when
\* the path does not exist, else the file
GetResultResponse(j, n, fs) ==
  IF ResultPath(n) \notin fs
    THEN [kind |-> "response", code |-> 404, body |-> [error |-> "not found"]]
    ELSE [kind |-> "response", code |-> 200, body |-> ResultPath(n)]

GetResult(j, n) ==
  /\ call = NoCall
  /\ call' = [op |-> "get_result", file_id |-> j, filename |-> n]
  /\ ret' = GetResultResponse(j, n, files)
  /\ UNCHANGED <<store, files, old, clock, jobvars, filevars>>

\* cleanup_old_files(max_age_days=7) from its first line to its last: the
\* old files of uploads/ and results/ are unlinked, but for those whose
\* unlink raises, and the document is rewritten with the entries kept.
CleanupOldFiles ==
  /\ call = NoCall
  /\ \E failed \in SUBSET SweepTargets(files, old) :
       /\ call' = [op |-> "cleanup_old_files",
                   found |-> SweepTargets(files, old), failed |-> failed]
       /\ files' = files \ (SweepTargets(files, old) \ failed)
  /\ old' = old \cap files'
  /\ store' = Keep(store, files')
  /\ ret' = [kind |-> "returned"]
  /\ UNCHANGED <<clock, jobvars, filevars>>

DiskNext ==
  \/ \E j \in Jobs, n \in RequestNames : GetResult(j, n)
  \/ CleanupOldFiles

DiskSpec == DiskInit /\ [][DiskNext]_vars

---------------------------------------------------------------------------
(* The normalizer: signed_normalize_fixed on arrays of raw coordinates.    *)
(* A float is held exactly, as a fraction in lowest terms with a positive  *)
(* denominator; denominator 0 stands for what IEEE division by zero gives, *)
(* inf (numerator 1), -inf (numerator -1) and nan (numerator 0).           *)

\* FIXED_MAX = 7.0
FIXED_MAX == 7

\* Raw coordinates are the halves from -MaxHalf/2 to MaxHalf/2.
MaxHalf == 16

\* Longest array normalized.
MaxLen == 2

Abs(n) == IF n < 0 THEN -n ELSE n

RECURSIVE Gcd(_, _)
Gcd(a, b) == IF b = 0 THEN a ELSE Gcd(b, a % b)

\* the float n / d, for d # 0
Frac(n, d) ==
  LET g == Gcd(Abs(n), Abs(d))
      sgn == IF d < 0 THEN -1 ELSE 1
  IN [num |-> sgn * (n \div g), den |-> sgn * (d \div g)]

NaN == [num |-> 0, den |-> 0]

Inf(sgn) == [num |-> sgn, den |-> 0]

Sign(n) == IF n < 0 THEN -1 ELSE IF n > 0 THEN 1 ELSE 0

\* a < b, for floats other than nan
Less(a, b) == a.num * b.den < b.num * a.den

\* a == b as floats compare: nan equals nothing
FloatEq(a, b) == a # NaN /\ b # NaN /\ a = b

\* arr / fixed_max, one element: numpy divides by zero without raising
Divide(x, m) ==
  IF x = NaN \/ m = NaN THEN NaN
  ELSE IF m.num = 0 THEN (IF x.num = 0 THEN NaN ELSE Inf(Sign(x.num)))
  ELSE IF x.den = 0 THEN Inf(Sign(x.num) * Sign(m.num))
  ELSE Frac(x.num * m.den, x.den * m.num)

\* np.clip(v, lo, hi), one element: nan stays nan
Clip(v, lo, hi) ==
  IF v = NaN THEN NaN
  ELSE IF Less(v, lo) THEN lo
  ELSE IF Less(hi, v) THEN hi
  ELSE v

\* A variant of signed_normalize_fixed that leaves a value alone when it
\* is within [-1, 1] already.
NormalizeUnlessInRange(arr, fixed_max) ==
  [i \in DOMAIN arr |->
     IF arr[i] # NaN /\ ~Less(arr[i], Frac(-1, 1)) /\ ~Less(Frac(1, 1), arr[i])
       THEN arr[i]
       ELSE Clip(Divide(arr[i], fixed_max), Frac(-1, 1), Frac(1, 1))]

\* A variant of signed_normalize_fixed without the clip.
NormalizeNoClip(arr, fixed_max) ==
  [i \in DOMAIN arr |-> Divide(arr[i], fixed_max)]

\* signed_normalize_fixed(arr, fixed_max):
\* norm_arr = arr / fixed_max; norm_arr = np.clip(norm_arr, -1, 1)
signed_normalize_fixed(arr, fixed_max) ==
  [i \in DOMAIN arr |-> Clip(Divide(arr[i], fixed_max), Frac(-1, 1), Frac(1, 1))]

\* the raw coordinates considered
Raws == { Frac(n, 2) : n \in (-MaxHalf)..MaxHalf }

\* the arrays considered
RawArrays == UNION { [1..n -> Raws] : n \in 1..MaxLen }

\* the values of fixed_max considered: the configured one, 1, values on
\* both sides of 1, zero and a negative one
Maxima == { Frac(FIXED_MAX, 1), Frac(1, 1), Frac(2, 1), Frac(1, 2), Frac(0, 1), Frac(-1, 1) }

NormInit ==
  /\ \E arr \in RawArrays, m \in Maxima :
       call = [op |-> "signed_normalize_fixed", raw |-> arr, arr |-> arr,
               fixed_max |-> m, pass |-> 0]
  /\ ret = NoRet
  /\ store = EmptyMeta
  /\ files = {}
  /\ old = {}
  /\ clock = 1
  /\ NoJobs
  /\ WholeDocument

\* P_norm = signed_normalize_fixed(P_raw, FIXED_MAX)
Normalize ==
  /\ call.pass = 0
  /\ call' = [call EXCEPT !.pass = 1]
  /\ ret' = [kind |-> "returned", value |-> signed_normalize_fixed(call.arr, call.fixed_max)]
  /\ UNCHANGED <<store, files, old, clock, jobvars, filevars>>

\* signed_normalize_fixed applied to its own result, with the same maximum
Renormalize ==
  /\ call.pass = 1
  /\ call' = [call EXCEPT !.arr = ret.value, !.pass = 2]
  /\ ret' = [kind |-> "returned", value |-> signed_normalize_fixed(ret.value, call.fixed_max)]
  /\ UNCHANGED <<store, files, old, clock, jobvars, filevars>>

NormNext == Normalize \/ Renormalize

NormSpec == NormInit /\ [][NormNext]_vars

---------------------------------------------------------------------------
(* The coordinates: calculate_coordinates and compute_P_E.  Ratings are    *)
(* whole numbers; a coordinate is held exactly, as the pair of whole       *)
(* numbers rat and cos that stands for rat + cos * cos(45 degrees).        *)

\* Highest rating on the questionnaire's scale.
MaxRating == 5

\* (eventful, vibrant, pleasant, calm, uneventful, monotonous, annoying,
\* chaotic) of a scene rated 4, 3, 5, 4, 2, 3, 2, 1
ScenarioA == <<4, 3, 5, 4, 2, 3, 2, 1>>

\* The scene tuples considered: ScenarioA, every tuple that differs from it
\* in one rating, and a tuple one rating short.
RatingTuples ==
  { [ScenarioA EXCEPT ![k] = r] : k \in 1..NRatings, r \in 1..MaxRating }
    \cup { SubSeq(ScenarioA, 1, NRatings - 1) }

\* the float x, a whole number
Whole(x) == [rat |-> x, cos |-> 0]

\* np.cos(np.deg2rad(45)) * x
TimesCos45(x) == [rat |-> 0, cos |-> x]

\* x + y
Plus(x, y) == [rat |-> x.rat + y.rat, cos |-> x.cos + y.cos]

\* A variant of calculate_coordinates in which E takes (ca - ch) as P does.
CoordinatesSameDiagonal(e, v, p, ca, u, m, a, ch) ==
  [P |-> Plus(Plus(Whole(p - a), TimesCos45(ca - ch)), TimesCos45(v - m)),
   E |-> Plus(Plus(Whole(e - u), TimesCos45(ca - ch)), TimesCos45(v - m))]

\* calculate_coordinates(e, v, p, ca, u, m, a, ch):
\* P = (p - a) + cos45 * (ca - ch) + cos45 * (v - m)
\* E = (e - u) + cos45 * (ch - ca) + cos45 * (v - m)
calculate_coordinates(e, v, p, ca, u, m, a, ch) ==
  [P |-> Plus(Plus(Whole(p - a), TimesCos45(ca - ch)), TimesCos45(v - m)),
   E |-> Plus(Plus(Whole(e - u), TimesCos45(ch - ca)), TimesCos45(v - m))]

\* compute_P_E(locations), on the values of `locations` in the order
\* locations.items() yields them: each tuple is unpacked into eight names,
\* which raises ValueError for a tuple of another length, and the P and E
\* of each scene are appended to the two lists.
compute_P_E(locations) ==
  IF \E i \in DOMAIN locations : Len(locations[i]) # NRatings
    THEN [kind |-> "raised", error |-> "ValueError"]
    ELSE LET PE(values) ==
               calculate_coordinates(values[1], values[2], values[3], values[4],
                                     values[5], values[6], values[7], values[8])
         IN [kind |-> "returned",
             P |-> [i \in DOMAIN locations |-> PE(locations[i]).P],
             E |-> [i \in DOMAIN locations |-> PE(locations[i]).E]]

CoordInit ==
  /\ \E n \in 1..MaxLen : \E locations \in [1..n -> RatingTuples] :
       call = [op |-> "compute_P_E", locations |-> locations]
  /\ ret = NoRet
  /\ store = EmptyMeta
  /\ files = {}
  /\ old = {}
  /\ clock = 1
  /\ NoJobs
  /\ WholeDocument

\* P_raw, E_raw = compute_P_E(locations)
ComputePE ==
  /\ call.op = "compute_P_E"
  /\ ret = NoRet
  /\ ret' = compute_P_E(call.locations)
  /\ UNCHANGED <<call, store, files, old, clock, jobvars, filevars>>

CoordNext == ComputePE

CoordSpec == CoordInit /\ [][CoordNext]_vars

---------------------------------------------------------------------------
(* The category codec: data_preprocessing builds the composite scene keys  *)
(* and the category maps, restore_category_from_scene decodes the keys.    *)
(* A string is the sequence of its tokens: "_", "+", "-", the digits, the  *)
(* letters, and the words "Assessment " (with its blank), "scene" and      *)
(* "unknown" taken whole.                                                  *)

Digits == <<"0", "1", "2", "3", "4", "5", "6", "7", "8", "9">>

IsDigit(c) == \E d \in DOMAIN Digits : Digits[d] = c

DigitValue(c) == (CHOOSE d \in DOMAIN Digits : Digits[d] = c) - 1

\* str(n), for an int
RECURSIVE str(_)
str(n) ==
  IF n < 0 THEN <<"-">> \o str(-n)
  ELSE IF n < 10 THEN <<Digits[n + 1]>>
  ELSE str(n \div 10) \o <<Digits[(n % 10) + 1]>>

\* the number a string of digits writes
RECURSIVE DigitsValue(_)
DigitsValue(s) ==
  IF s = <<>> THEN 0
  ELSE 10 * DigitsValue(SubSeq(s, 1, Len(s) - 1)) + DigitValue(s[Len(s)])

\* int(code_str): the value of an optional sign followed by digits;
\* anything else raises ValueError
int(s) ==
  LET signed == s # <<>> /\ s[1] \in {"-", "+"}
      body == IF signed THEN Tail(s) ELSE s
  IN IF body # <<>> /\ \A i \in DOMAIN body : IsDigit(body[i])
       THEN [ok |-> TRUE,
             value |-> IF signed /\ s[1] = "-" THEN -DigitsValue(body) ELSE DigitsValue(body)]
       ELSE [ok |-> FALSE]

\* s.split(sep)
RECURSIVE split(_, _)
split(s, sep) ==
  IF \A i \in DOMAIN s : s[i] # sep THEN <<s>>
  ELSE LET i == CHOOSE i \in DOMAIN s : s[i] = sep /\ \A k \in 1..(i - 1) : s[k] # sep
       IN <<SubSeq(s, 1, i - 1)>> \o split(SubSeq(s, i + 1, Len(s)), sep)

\* sep.join(parts)
RECURSIVE join(_, _)
join(sep, parts) ==
  IF parts = <<>> THEN <<>>
  ELSE IF Len(parts) = 1 THEN parts[1]
  ELSE parts[1] \o <<sep>> \o join(sep, Tail(parts))

\* the digits that \d+ takes at the head of s are dropped
RECURSIVE DropDigits(_)
DropDigits(s) == IF s # <<>> /\ IsDigit(s[1]) THEN DropDigits(Tail(s)) ELSE s

\* df['ID'].str.replace(r'Assessment \d+', 'Assessment ', regex=True)
RECURSIVE CleanId(_)
CleanId(s) ==
  IF s = <<>> THEN <<>>
  ELSE IF s[1] = "Assessment " /\ Len(s) >= 2 /\ IsDigit(s[2])
    THEN <<"Assessment ">> \o CleanId(DropDigits(Tail(s)))
  ELSE <<s[1]>> \o CleanId(Tail(s))

\* The category labels considered, in the order sorting puts them.
SortedLabels == << <<"a">>, <<"b">> >>

\* df[col].astype("category").cat.categories: the distinct values of the
\* column, sorted
Categories(values) == SelectSeq(SortedLabels, LAMBDA l : l \in Range(values))

\* df[col].cat.codes, one row: the position of the value among the
\* categories, from 0
CatCode(values, i) ==
  (CHOOSE k \in DOMAIN Categories(values) : Categories(values)[k] = values[i]) - 1

\* dict(enumerate(df[col].cat.categories))
CategoryMap(values) ==
  [k \in 0..(Len(Categories(values)) - 1) |-> Categories(values)[k + 1]]

\* data_preprocessing(df), as far as the scene keys go: the cleaned ID, "_"
\* and the codes of the row joined by "_"; the keys become the column
\* names of the pivoted table, behind the column "scene".
data_preprocessing(df) ==
  LET scene == [i \in DOMAIN df.ID |-> CleanId(df.ID[i])]
      codes(i) == [c \in DOMAIN df.category |-> str(CatCode(df.category[c].values, i))]
  IN [columns |-> << <<"scene">> >> \o
                    [i \in DOMAIN df.ID |-> scene[i] \o <<"_">> \o join("_", codes(i))],
      category_maps |->
        [c \in DOMAIN df.category |->
           [col |-> df.category[c].col, map |-> CategoryMap(df.category[c].values)]]]

\* cat_map.get(code, "unknown")
Get(cat_map, code) == IF code \in DOMAIN cat_map THEN cat_map[code] ELSE <<"unknown">>

\* restore_category_from_scene(scene, category_maps)
restore_category_from_scene(scene, category_maps) ==
  LET parts == split(scene, "_")
      code_strings == Tail(parts)
      n == IF Len(category_maps) < Len(code_strings)
             THEN Len(category_maps) ELSE Len(code_strings)
  IN IF Len(parts) < 2 THEN [kind |-> "returned", value |-> scene]
     ELSE IF \E k \in 1..n : ~int(code_strings[k]).ok
       THEN [kind |-> "raised", error |-> "ValueError"]
     ELSE [kind |-> "returned",
           value |-> parts[1] \o <<"_">> \o
                       join("+", [k \in 1..n |->
                                    Get(category_maps[k].map, int(code_strings[k]).value)])]

\* The ID labels considered: a plain one, one with a digit, two that hold
\* the separator, and one the cleaning rewrites.
IdLabels ==
  { <<"s">>, <<"s", "2">>, <<"s", "_", "x">>, <<"s", "_", "1">>, <<"Assessment ", "1">> }

\* The category columns a table can have, in column order.
CategoryCols == <<"Category1", "Category2">>

\* The tables considered: up to MaxLen rows, the first one or two category
\* columns.
Tables ==
  { [ID |-> ids, category |-> [c \in 1..n |-> [col |-> CategoryCols[c], values |-> vals[c]]]] :
      ids \in UNION { [1..r -> IdLabels] : r \in 1..MaxLen },
      n \in DOMAIN CategoryCols,
      vals \in UNION { [DOMAIN CategoryCols -> [1..r -> Range(SortedLabels)]] : r \in 1..MaxLen } }

CodecInit ==
  /\ \E df \in Tables :
       /\ \A c \in DOMAIN df.category : Len(df.category[c].values) = Len(df.ID)
       /\ call = [op |-> "main", df_row |-> df, stage |-> "read",
                  columns |-> <<>>, category_map |-> <<>>]
  /\ ret = NoRet
  /\ store = EmptyMeta
  /\ files = {}
  /\ old = {}
  /\ clock = 1
  /\ NoJobs
  /\ WholeDocument

\* main(): df, category_map = data_preprocessing(df_row)
Preprocess ==
  /\ call.op = "main"
  /\ call.stage = "read"
  /\ LET out == data_preprocessing(call.df_row)
     IN call' = [call EXCEPT !.stage = "preprocessed", !.columns = out.columns,
                             !.category_map = out.category_maps]
  /\ UNCHANGED <<ret, store, files, old, clock, jobvars, filevars>>

\* main(): df.columns = [restore_category_from_scene(col, category_map)
\* for col in df.columns]; an exception leaves the try block for its
\* except branch, which sets the job to error and returns.
RestoreColumns ==
  /\ call.op = "main"
  /\ call.stage = "preprocessed"
  /\ LET restored == [i \in DOMAIN call.columns |->
                        restore_category_from_scene(call.columns[i], call.category_map)]
     IN ret' = IF \E i \in DOMAIN restored : restored[i].kind = "raised"
                 THEN [kind |-> "raised", error |-> "ValueError"]
                 ELSE [kind |-> "returned",
                       columns |-> [i \in DOMAIN restored |-> restored[i].value]]
  /\ call' = [call EXCEPT !.stage = "restored"]
  /\ UNCHANGED <<store, files, old, clock, jobvars, filevars>>

CodecNext == Preprocess \/ RestoreColumns

CodecSpec == CodecInit /\ [][CodecNext]_vars

---------------------------------------------------------------------------
(* Steps and states the properties speak of *)

Stopped == {"exited", "crashed"}

\* runner r makes its success write / its error write in this step
DoneWriteStep(r) == rpc[r] = "done_write" /\ rpc'[r] = "remove"

ErrorWriteStep(r) == rpc[r] = "err_write" /\ rpc'[r] = "exited"

\* update_meta finds no entry and returns without writing
ErrorSkipStep(r) == rpc[r] = "err_read" /\ rpc'[r] = "exited"

\* handler h rewrites the store with the entries its sweep keeps
PruneStep(h) == hpc[h] = "prune_write" /\ hpc'[h] = "await"

\* the steps of upload_html, in the order of its lines: the sweep (its
\* unlinks, its read, its rewrite), the upload saved, add_meta_entry (its
\* read, its write), Popen and the return
HandlerSteps ==
  { <<"idle", "prune_read">>, <<"prune_read", "prune_write">>, <<"prune_write", "await">>,
    <<"await", "add_read">>, <<"add_read", "add_write">>, <<"add_write", "spawn">>,
    <<"spawn", "returned">> }

\* handler h goes from position `from` to position `to` in this step
HandlerStep(h, from, to) == hpc[h] = from /\ hpc'[h] = to

\* runner r is in the except branch of its read
OnErrorPath(r) == rpc[r] \in {"err_read", "err_write"}

\* runner r leaves the try block of plot k in this step
PlotStep(r, k) ==
  /\ rpc[r] = (IF k = 1 THEN "plot1" ELSE "plot2")
  /\ rpc'[r] # rpc[r]

\* every submission has returned and every runner has stopped
AllFinished ==
  /\ \A h \in Jobs : hpc[h] = "returned"
  /\ \A r \in Jobs : rpc[r] \in Stopped

\* runner r has finished on the success path
Succeeded(r) ==
  /\ rpc[r] = "exited"
  /\ Len(twrites[r]) = 1
  /\ twrites[r][1].status = "done"

---------------------------------------------------------------------------
(* C1..C10: job lifecycle *)

\* C1: the status stored for a job never leaves a terminal value: a store
\* state that shows done or error for an id is never followed by one that
\* shows another status for that id.
C1_StatusMonotonic ==
  [][\A j \in Jobs :
       (j \in DOMAIN store /\ store[j].status \in Terminal /\ j \in DOMAIN store')
         => store'[j].status = store[j].status]_vars

\* C2: when runner b read the store before runner a's success write landed,
\* b's own success write puts a's entry back to what b read: status
\* processing, no artifacts.
C2_LostUpdate ==
  [][\A a, b \in Jobs :
       ( /\ a # b
         /\ DoneWriteStep(b)
         /\ a \in DOMAIN rsnap[b] /\ rsnap[b][a].status = "processing"
         /\ a \in DOMAIN store /\ store[a].status = "done" )
       => ( /\ a \in DOMAIN store'
            /\ store'[a].status = "processing"
            /\ store'[a].plots = <<>> )]_vars

\* C2 witness: both runners finished on the success path, yet the first
\* job's entry is still processing with an empty artifact list.
C2_Witness ==
  \E a, b \in Jobs :
    /\ a # b
    /\ Succeeded(a) /\ Succeeded(b)
    /\ a \in DOMAIN store /\ store[a].status = "processing" /\ store[a].plots = <<>>
    /\ b \in DOMAIN store /\ store[b].status = "done"

\* C3: a runner that stops on a failure of its reading or computing part
\* leaves its job, if the store has it, with status error.
C3_FailureEndsInError ==
  [][\A r \in Jobs :
       (rpc[r] \notin Stopped /\ rpc'[r] \in Stopped /\ rpc[r] # "remove")
         => (r \in DOMAIN store' => store'[r].status = "error")]_vars

\* C4: once a runner that made its terminal write has finished, its upload
\* file no longer exists.
C4_UploadRemoved ==
  \A r \in Jobs :
    (rpc[r] = "exited" /\ twrites[r] # <<>>) => UploadPath(r) \notin files

C6_PruneIffNoArtifact ==
  [][\A h \in Jobs :
       PruneStep(h) =>
         \A j \in DOMAIN hsnap[h] :
           (j \notin DOMAIN store')
             <=> ~ \E p \in Range(hsnap[h][j].plots) : ResultPath(p) \in files]_vars

\* C7: an entry leaves the store only in a sweeper's prune step.
C7_OnlySweeperRemoves ==
  [][\A j \in DOMAIN store :
       j \notin DOMAIN store' => \E h \in Jobs : PruneStep(h)]_vars

\* C8: when every submission has returned and every runner has stopped,
\* every job whose entry was created has status done or error in the store.
C8_AllJobsTerminal ==
  AllFinished => \A j \in DOMAIN store : store[j].status \in Terminal

\* C9: a runner that has stopped has made exactly one store write that sets
\* a terminal status, and no runner ever makes two.
C9_ExactlyOneTerminalWrite ==
  \A r \in Jobs :
    /\ Len(twrites[r]) <= 1
    /\ rpc[r] \in Stopped => Len(twrites[r]) = 1

\* C10: an entry with status processing or error has no artifacts and no
\* timestamp; an entry with status done has a timestamp and the complete
\* artifact list of its runner.
C10_EntryConsistent ==
  \A j \in DOMAIN store :
    /\ store[j].status \in {"processing", "error"}
         => (store[j].plots = <<>> /\ store[j].processed_at = Null)
    /\ store[j].status = "done"
         => (store[j].processed_at # Null /\ store[j].plots = rplots[j])
    /\ store[j].status \in {"processing", "done", "error"}

\* C10 witness: the store shows a done entry with both artifacts next to an
\* error entry.
C10_Witness ==
  \E a, b \in DOMAIN store :
    /\ store[a].status = "done" /\ Len(store[a].plots) = 2
    /\ store[b].status = "error"

---------------------------------------------------------------------------
(* C11..C20: store file, store operations, endpoints, sweeper, normalizer *)

\* C11: whatever a reader gets from reading the document is a complete
\* document: the one of the last completed write or the one being written,
\* never an empty or cut-off text.
C11_ReadsSeeWholeDocument ==
  [][(ret' # ret \/ call' # call) =>
       /\ ret'.kind = "meta"
       /\ ret'.meta \in {store, Loads(text \o pending).meta}]_vars

\* C12: update_meta on an id without entry leaves the document as it is
\* and raises nothing, and a status request for that id is answered 404
\* not_found, before as after.
C12_UpdateAbsentIsNoOp ==
  [][\A j \in Jobs :
       /\ (call'.op = "update_meta" /\ call'.file_id = j /\ j \notin DOMAIN store)
            => ( /\ store' = store
                 /\ ret'.kind = "returned"
                 /\ StatusResponse(store', j).code = 404 )
       /\ (call'.op = "status" /\ call'.file_id = j /\ j \notin DOMAIN store)
            => (ret'.code = 404 /\ store' = store)]_vars

\* C12 witness: update_meta has returned for an id the document does not
\* hold, next to entries of other jobs.
C12_Witness ==
  /\ call.op = "update_meta"
  /\ call.file_id \notin DOMAIN store
  /\ ret.kind = "returned"
  /\ store # EmptyMeta

\* C13: a file that cannot be read or reshaped takes the runner into its
\* except branch, never to a crash; there the runner has no artifact, in
\* its list or on disk, writes status error into its entry when the
\* document it read holds the entry, and returns.
C13_UnreadableInputEndsInError ==
  [][\A r \in Jobs :
       /\ \A t \in Inputs :
            LoadRaises(t, r, files) => AfterCompute(t, r, files) = "err_read"
       /\ OnErrorPath(r)
            => ( /\ rplots[r] = <<>>
                 /\ \A k \in 1..2 : ResultPath(PlotName(r, k)) \notin files
                 /\ rpc'[r] \in {"err_read", "err_write", "exited"} )
       /\ (rpc[r] = "err_read" /\ rpc'[r] # rpc[r] /\ r \in DOMAIN store)
            => rpc'[r] = "err_write"
       /\ ErrorWriteStep(r)
            => ( /\ r \in DOMAIN store'
                 /\ store'[r].status = "error"
                 /\ store'[r].plots = <<>> )]_vars

\* C13 witness: a runner has returned from its except branch, its entry
\* shows error, and it left no artifact.
C13_Witness ==
  \E r \in Jobs :
    /\ rpc[r] = "exited"
    /\ twrites[r] = <<[status |-> "error", created |-> FALSE]>>
    /\ r \in DOMAIN store /\ store[r].status = "error" /\ store[r].plots = <<>>
    /\ rplots[r] = <<>>
    /\ \A k \in 1..2 : ResultPath(PlotName(r, k)) \notin files

\* C14: the runner leaves the try block of plot 1 for plot 2 and that of
\* plot 2 for the success write, whether the plot was rendered or not; a
\* plot is appended to the list exactly when its file was rendered; and
\* the success write stores status done with the rendered plots, plot1
\* before plot2.
C14_PlotsIndependent ==
  [][\A r \in Jobs :
       /\ PlotStep(r, 1) => rpc'[r] = "plot2"
       /\ PlotStep(r, 2) => rpc'[r] = "done_read"
       /\ \A k \in 1..2 :
            PlotStep(r, k) =>
              rplots'[r] = IF ResultPath(PlotName(r, k)) \in files'
                             THEN Append(rplots[r], PlotName(r, k))
                             ELSE rplots[r]
       /\ DoneWriteStep(r) =>
            LET Rendered(p) == ResultPath(p) \in files
            IN /\ r \in DOMAIN store'
               /\ store'[r].status = "done"
               /\ store'[r].plots = rplots[r]
               /\ rplots[r] = SelectSeq(<<PlotName(r, 1), PlotName(r, 2)>>, Rendered)]_vars

\* C14 witness: a runner whose first plot failed has finished; its entry
\* is done and lists the second plot alone.
C14_Witness ==
  \E r \in Jobs :
    /\ Succeeded(r)
    /\ r \in DOMAIN store /\ store[r].status = "done"
    /\ store[r].plots = <<PlotName(r, 2)>>
    /\ ResultPath(PlotName(r, 1)) \notin files
    /\ ResultPath(PlotName(r, 2)) \in files

\* C15: get_result answers with a file only when the name asked for is
\* the name of an artifact of the job whose id is asked for.
C15_FetchOnlyOwnArtifact ==
  [][(call'.op = "get_result" /\ ret'.code = 200)
       => call'.filename \in {PlotName(call'.file_id, k) : k \in 1..2}]_vars

\* C18: a sweep removes from disk exactly the files of uploads/ and
\* results/ that are older than the cutoff and whose unlink did not fail:
\* no younger file goes, every other old file goes whatever failed, and
\* the document is pruned all the same.
C18_SweepDeletesOldFiles ==
  [][call'.op = "cleanup_old_files" =>
       /\ \A f \in files :
            f \notin files' <=>
              (f.dir \in {"uploads", "results"} /\ f \in old /\ f \notin call'.failed)
       /\ files' \subseteq files
       /\ store' = Keep(store, files')
       /\ ret'.kind = "returned"]_vars

\* C18 witness: a sweep has found old files, one unlink at least failed
\* and left its file, the other old files are gone, and a younger file is
\* still there.
C18_Witness ==
  /\ call.op = "cleanup_old_files"
  /\ call.failed # {} /\ call.failed \subseteq files
  /\ call.found \ call.failed # {}
  /\ (call.found \ call.failed) \cap files = {}
  /\ \E f \in files : f \notin old
  /\ ret.kind = "returned"

\* C16: what history answers holds every entry of the document once, the
\* entries with a timestamp first, latest first, and the entries without
\* timestamp behind them.
C16_HistoryOrdered ==
  [][call'.op = "history" =>
       LET items == ret'.body
       IN /\ Len(items) = Cardinality(DOMAIN store)
          /\ Range(items) = {store[j] : j \in DOMAIN store}
          /\ \A i, k \in 1..Len(items) :
               i < k =>
                 /\ items[i].processed_at = Null => items[k].processed_at = Null
                 /\ (items[i].processed_at # Null /\ items[k].processed_at # Null)
                      => items[i].processed_at >= items[k].processed_at]_vars

\* C16 witness: history has answered, on a document whose last entry by id
\* is the latest, with that entry first and an earlier one behind it.
C16_Witness ==
  /\ call.op = "history"
  /\ Len(ret.body) >= 2
  /\ \E i, k \in 1..Len(ret.body) :
       /\ i < k
       /\ ret.body[k].processed_at # Null
       /\ ret.body[i].processed_at > ret.body[k].processed_at
       /\ ret.body[i].file_id > ret.body[k].file_id

\* C17: a submission handler takes its steps in the order sweep, upload
\* saved, entry created, runner launched, return: the sweep is over before
\* the upload is on disk; the upload is on disk before the entry is made;
\* the entry is made, with status processing, while the runner has not
\* started; the runner starts in the handler's last step and in no other;
\* and the handler has returned when the runner has written nothing yet.
C17_SubmissionOrder ==
  [][\A h \in Jobs :
       /\ hpc'[h] # hpc[h] => <<hpc[h], hpc'[h]>> \in HandlerSteps
       /\ PruneStep(h)
            => (UploadPath(h) \notin files' /\ h \notin DOMAIN store' /\ rpc'[h] = "notstarted")
       /\ HandlerStep(h, "await", "add_read")
            => (UploadPath(h) \in files' /\ h \notin DOMAIN store' /\ rpc'[h] = "notstarted")
       /\ HandlerStep(h, "add_write", "spawn")
            => ( /\ UploadPath(h) \in files
                 /\ h \in DOMAIN store' /\ store'[h] = NewEntry(h)
                 /\ store'[h].status = "processing"
                 /\ rpc'[h] = "notstarted" )
       /\ (rpc[h] = "notstarted" /\ rpc'[h] # "notstarted")
            => (HandlerStep(h, "spawn", "returned") /\ rpc'[h] = "load")
       /\ HandlerStep(h, "spawn", "returned")
            => (rpc'[h] = "load" /\ twrites'[h] = <<>>)]_vars

\* C17 witness: a handler has returned; its upload is on disk, its entry
\* is in the store with status processing, and its runner is about to take
\* its first step, having written nothing.
C17_Witness ==
  \E h \in Jobs :
    /\ hpc[h] = "returned"
    /\ rpc[h] = "load"
    /\ UploadPath(h) \in files
    /\ h \in DOMAIN store /\ store[h] = NewEntry(h)
    /\ twrites[h] = <<>>

\* C19: within a sweep the unlinking comes first and touches neither the
\* store nor the handler's copy of it; once the store is read no file is
\* unlinked any more; and the rewrite keeps the entries by the disk as it
\* is then, so an entry whose artifacts are all gone from results/ is not
\* kept.
C19_DeleteBeforePrune ==
  [][\A h \in Jobs :
       /\ HandlerStep(h, "idle", "prune_read")
            => (store' = store /\ hsnap' = hsnap /\ files' \subseteq files)
       /\ hpc[h] = "prune_read" => hpc'[h] \in {"prune_read", "prune_write"}
       /\ (HandlerStep(h, "prune_read", "prune_write") \/ PruneStep(h))
            => files' = files
       /\ PruneStep(h)
            => ( /\ store' = Keep(hsnap[h], files)
                 /\ \A j \in DOMAIN hsnap[h] :
                      (\A p \in Range(hsnap[h][j].plots) : ResultPath(p) \notin files)
                        => j \notin DOMAIN store' )]_vars

\* C19 witness: a sweep has unlinked the artifacts of a done job and has
\* then read the store, which still lists them; its rewrite is next.
C19_Witness ==
  \E h \in Jobs :
    /\ hpc[h] = "prune_write"
    /\ \E j \in DOMAIN hsnap[h] :
         /\ hsnap[h][j].status = "done"
         /\ Len(hsnap[h][j].plots) = 2
         /\ \A p \in Range(hsnap[h][j].plots) : ResultPath(p) \notin files

\* |x| <= m, for floats other than nan
AbsLeq(x, m) == ~Less(m, Frac(Abs(x.num), x.den))

\* C20 as claimed, for a maximum above zero: for a raw value x with
\* |x| <= m, normalizing the normalized value again gives the normalized
\* value.
C20_Idempotent ==
  call.pass = 2 =>
    \A i \in DOMAIN call.raw :
      (Less(Frac(0, 1), call.fixed_max) /\ AbsLeq(call.raw[i], call.fixed_max))
        => FloatEq(ret.value[i], call.arr[i])

\* C20 as amended: for m > 0 and |x| <= m the first pass gives x / m, the
\* second pass divides by m again and gives x / m^2 clipped to [-1, 1];
\* the two are equal exactly when x = 0, or m = 1, or m < 1 and |x| = m.
C20_SecondPassDividesAgain ==
  call.pass = 2 =>
    \A i \in DOMAIN call.raw :
      LET x == call.raw[i]
          m == call.fixed_max
          one == Frac(1, 1)
      IN (Less(Frac(0, 1), m) /\ AbsLeq(x, m)) =>
           /\ call.arr[i] = Frac(x.num * m.den, x.den * m.num)
           /\ ret.value[i] =
                Clip(Frac(x.num * m.den * m.den, x.den * m.num * m.num), Frac(-1, 1), one)
           /\ FloatEq(ret.value[i], call.arr[i])
                <=> (x.num = 0 \/ m = one \/ (Less(m, one) /\ Frac(Abs(x.num), x.den) = m))

\* C20 witness: with the configured maximum, x = FIXED_MAX is normalized
\* to 1 and, normalized again, to 1 / FIXED_MAX.
C20_Witness ==
  /\ call.pass = 2
  /\ call.fixed_max = Frac(FIXED_MAX, 1)
  /\ \E i \in DOMAIN call.raw :
       /\ call.raw[i] = Frac(FIXED_MAX, 1)
       /\ call.arr[i] = Frac(1, 1)
       /\ ret.value[i] = Frac(1, FIXED_MAX)

---------------------------------------------------------------------------
(* C21..C30: the normalizer's range, the coordinates, the category codec,  *)
(* and what concurrent jobs do to each other's entries and files.          *)

\* |x| >= m, for floats other than nan
AbsGeq(x, m) == ~Less(Frac(Abs(x.num), x.den), m)

\* C21: for a maximum m above zero, the normalized value of v is v / m
\* when |v| < m and the sign of v, 1 or -1, when |v| >= m: its magnitude is
\* at most 1 and is 1 exactly when |v| >= m; a raw 10 under the maximum 7
\* gives 1.
C21_ClippedToUnit ==
  /\ signed_normalize_fixed(<<Frac(10, 1)>>, Frac(FIXED_MAX, 1)) = <<Frac(1, 1)>>
  /\ (call.op = "signed_normalize_fixed" /\ call.pass = 1
        /\ Less(Frac(0, 1), call.fixed_max)) =>
       \A i \in DOMAIN call.raw :
         LET v == call.raw[i]
             m == call.fixed_max
             n == ret.value[i]
         IN /\ n # NaN
            /\ AbsLeq(n, Frac(1, 1))
            /\ (Frac(Abs(n.num), n.den) = Frac(1, 1)) <=> AbsGeq(v, m)
            /\ IF AbsGeq(v, m)
                 THEN n = Frac(Sign(v.num), 1)
                 ELSE n.num * v.den * m.num = v.num * m.den * n.den

\* C21 witness: under the configured maximum a raw value above it and one
\* inside the range have been normalized, to 1 and to the value over the
\* maximum.
C21_Witness ==
  /\ call.op = "signed_normalize_fixed"
  /\ call.pass = 1
  /\ call.fixed_max = Frac(FIXED_MAX, 1)
  /\ Len(call.raw) = 2
  /\ call.raw[1] = Frac(FIXED_MAX + 1, 1)
  /\ ret.value[1] = Frac(1, 1)
  /\ call.raw[2] = Frac(-1, 2)
  /\ ret.value[2] = Frac(-1, 2 * FIXED_MAX)

\* C22: for scenes of eight ratings (e, v, p, ca, u, m, a, ch), compute_P_E
\* returns one P and one E per scene, in the order of the scenes, with
\* P = (p - a) + cos45 * ((ca - ch) + (v - m)) and
\* E = (e - u) + cos45 * ((ch - ca) + (v - m)) for that scene's ratings.
C22_Coordinates ==
  (call.op = "compute_P_E" /\ ret # NoRet
     /\ \A i \in DOMAIN call.locations : Len(call.locations[i]) = NRatings) =>
    /\ ret.kind = "returned"
    /\ DOMAIN ret.P = DOMAIN call.locations
    /\ DOMAIN ret.E = DOMAIN call.locations
    /\ \A i \in DOMAIN call.locations :
         LET t == call.locations[i]
         IN /\ ret.P[i] = [rat |-> t[3] - t[7], cos |-> (t[4] - t[8]) + (t[2] - t[6])]
            /\ ret.E[i] = [rat |-> t[1] - t[5], cos |-> (t[8] - t[4]) + (t[2] - t[6])]

\* C22 witness: compute_P_E has returned for two scenes, ScenarioA first
\* with P = 3 + 3 cos45 and E = 2 - 3 cos45, then a scene that differs from
\* it in its chaotic rating and so in both coordinates.
C22_Witness ==
  /\ call.op = "compute_P_E"
  /\ ret # NoRet
  /\ ret.kind = "returned"
  /\ Len(call.locations) = 2
  /\ call.locations[1] = ScenarioA
  /\ call.locations[2] = [ScenarioA EXCEPT ![8] = MaxRating]
  /\ ret.P = << [rat |-> 3, cos |-> 3], [rat |-> 3, cos |-> 4 - MaxRating] >>
  /\ ret.E = << [rat |-> 2, cos |-> -3], [rat |-> 2, cos |-> MaxRating - 4] >>

\* C23: with a maximum that is zero or negative no array is ever
\* normalized: signed_normalize_fixed returns nothing for it.
C23_NonPositiveMaximumRejected ==
  (call.op = "signed_normalize_fixed" /\ ~Less(Frac(0, 1), call.fixed_max)) =>
    ret.kind # "returned"

\* the labels of row i of table df in column order, joined by "+"
RowLabels(df, i) == join("+", [c \in DOMAIN df.category |-> df.category[c].values[i]])

\* C24: decoding the keys of a table with the category maps of the same
\* encoding pass succeeds and gives, for every row, the ID label the key
\* was built from (the row's label, a numbered "Assessment N" without its
\* number), "_" and the row's category labels in column order joined by
\* "+", with no "unknown" among them; labels that hold "_" included.
C24_RoundTrip ==
  (call.op = "main" /\ call.stage = "restored") =>
    /\ ret.kind = "returned"
    /\ \A i \in DOMAIN call.df_row.ID :
         /\ ret.columns[i + 1] =
              CleanId(call.df_row.ID[i]) \o <<"_">> \o RowLabels(call.df_row, i)
         /\ "unknown" \notin Range(ret.columns[i + 1])

\* the distinct values of a column in the order of their first appearance
RECURSIVE FirstSeen(_)
FirstSeen(values) ==
  IF values = <<>> THEN <<>>
  ELSE LET before == FirstSeen(SubSeq(values, 1, Len(values) - 1))
       IN IF values[Len(values)] \in Range(before)
            THEN before
            ELSE Append(before, values[Len(values)])

\* C25: the category map of every category column sends code k to the
\* (k+1)-th distinct value of the column in order of first appearance, and
\* the key of each row carries, for every column, the code of the row's
\* value in that numbering.
C25_FirstAppearanceCodes ==
  (call.op = "main" /\ call.stage # "read") =>
    LET df == call.df_row
        seen(c) == FirstSeen(df.category[c].values)
        code(c, i) == (CHOOSE k \in DOMAIN seen(c) : seen(c)[k] = df.category[c].values[i]) - 1
    IN /\ \A c \in DOMAIN df.category :
            call.category_map[c].map = [k \in 0..(Len(seen(c)) - 1) |-> seen(c)[k + 1]]
       /\ \A i \in DOMAIN df.ID :
            call.columns[i + 1] =
              CleanId(df.ID[i]) \o <<"_">> \o
                join("_", [c \in DOMAIN df.category |-> str(code(c, i))])

\* C26: decoding the column names never raises, and every segment behind
\* the base label that is paired with a category map comes out as the
\* label the map holds for it or, when it is no integer or no code of the
\* map, as "unknown".
C26_DecodeNeverFails ==
  (call.op = "main" /\ call.stage = "restored") =>
    /\ ret.kind = "returned"
    /\ \A i \in DOMAIN call.columns :
         LET parts == split(call.columns[i], "_")
             n == IF Len(call.category_map) < Len(parts) - 1
                    THEN Len(call.category_map) ELSE Len(parts) - 1
             label(k) ==
               IF int(parts[k + 1]).ok /\ int(parts[k + 1]).value \in DOMAIN call.category_map[k].map
                 THEN call.category_map[k].map[int(parts[k + 1]).value]
                 ELSE <<"unknown">>
         IN Len(parts) >= 2 =>
              ret.columns[i] = parts[1] \o <<"_">> \o join("+", [k \in 1..n |-> label(k)])

\* job j is in flight: its entry is in the store with status processing and
\* its runner has made no terminal write and has not stopped
InFlight(j) ==
  /\ j \in DOMAIN store
  /\ store[j].status = "processing"
  /\ twrites[j] = <<>>
  /\ rpc[j] \notin Stopped

\* C27: the rewrite that ends a sweep leaves the entry of every job in
\* flight in the store, so that a status query for it is not answered
\* with not-found.
C27_SweepSparesJobsInFlight ==
  [][\A h \in Jobs :
       PruneStep(h) =>
         \A j \in Jobs : InFlight(j) => StatusResponse(store', j).code # 404]_vars

\* runner r leaves the os.remove at the end of main() in this step
RemoveStep(r) == rpc[r] = "remove" /\ rpc'[r] # "remove"

\* C28: a runner takes its upload off the disk only in the os.remove at
\* the end of main(), which it reaches only after its success write; that
\* step leaves the store as it is and ends the runner normally, whether
\* the file went or os.remove failed and the file stayed.
C28_RemoveAfterTerminalWrite ==
  [][\A r \in Jobs :
       /\ (UploadPath(r) \in files /\ UploadPath(r) \notin files') => RemoveStep(r)
       /\ RemoveStep(r) =>
            /\ Len(twrites[r]) = 1
            /\ twrites[r][1].status = "done"
            /\ twrites' = twrites
            /\ store' = store
            /\ rpc'[r] = "exited"
            /\ files' \in {files, files \ {UploadPath(r)}}]_vars

\* C28 witness: a runner has finished after an os.remove that failed: its
\* upload is still on disk, and its entry is done with both artifacts.
C28_Witness ==
  \E r \in Jobs :
    /\ rpc[r] = "exited"
    /\ Len(twrites[r]) = 1
    /\ twrites[r][1].status = "done"
    /\ UploadPath(r) \in files
    /\ r \in DOMAIN store
    /\ store[r].status = "done"
    /\ store[r].plots = <<PlotName(r, 1), PlotName(r, 2)>>

\* C29: the terminal write of a runner, done or error, leaves in the
\* job's entry the filename the submission handler recorded, the name the
\* client gave the upload, and the job's file_id.
C29_NameAndIdFixed ==
  [][\A r \in Jobs :
       (DoneWriteStep(r) \/ ErrorWriteStep(r)) =>
         /\ r \in DOMAIN store'
         /\ store'[r].filename = OrigName
         /\ store'[r].file_id = r]_vars

\* runner r takes a step
RunnerStep(r) == rpc[r] # "notstarted" /\ rpc'[r] # rpc[r]

\* C30: every file put on disk carries the id of a job in its name, every
\* artifact recorded in an entry, or held by a runner for its entry,
\* carries the id of that job, and so does the saved-upload name a done
\* entry records; the artifact lists of two jobs have no name in common;
\* and a step of a runner creates, rewrites and removes only files that
\* carry its own job's id.
C30_JobsShareNoFiles ==
  [][/\ files' # files => \A f \in files' : f.name.id \in Jobs
     /\ store' # store =>
          /\ \A j \in DOMAIN store' :
               /\ \A p \in Range(store'[j].plots) : p.id = j
               /\ store'[j].status = "done" => store'[j].filename.id = j
          /\ \A i, j \in DOMAIN store' :
               i # j => Range(store'[i].plots) \cap Range(store'[j].plots) = {}
     /\ rplots' # rplots => \A r \in Jobs : \A p \in Range(rplots'[r]) : p.id = r
     /\ \A r \in Jobs :
          RunnerStep(r) =>
            \A f \in (files \ files') \cup (files' \ files) \cup (old \ old') :
              f.name.id = r]_vars

\* C30 witness: one job is done with both artifacts recorded while the
\* runner of another has rendered its first plot and is at its second;
\* the three artifacts are on disk side by side.
C30_Witness ==
  \E i, j \in Jobs :
    /\ i # j
    /\ i \in DOMAIN store
    /\ store[i].status = "done"
    /\ store[i].plots = <<PlotName(i, 1), PlotName(i, 2)>>
    /\ rpc[j] = "plot2"
    /\ rplots[j] = <<PlotName(j, 1)>>
    /\ { ResultPath(PlotName(i, 1)), ResultPath(PlotName(i, 2)),
         ResultPath(PlotName(j, 1)) } \subseteq files

====
